---- MODULE Spec2Model ----
(***************************************************************************)
(* The prompt gateway of src/routes/ai_service.py: five Flask handlers     *)
(* that validate a JSON request, make one blocking call to the completion  *)
(* provider and turn its text into a JSON response.                        *)
(*                                                                         *)
(* Texts that the code scans character by character (the provider reply)   *)
(* are sequences of one-character strings.  JSON string values and object  *)
(* keys are TLA+ strings.  A JSON value is a record [t, v] whose tag t     *)
(* names its type.                                                         *)
(***************************************************************************)
EXTENDS Integers, Sequences, FiniteSets, TLC

VARIABLES
    pc,         \* "idle" | "calling" (blocked in client.chat.completions.create) | "responded"
    route,      \* the handler serving the current request
    request,    \* the HTTP request body as Flask sees it
    sent,       \* the provider calls made while serving the current request
    reply,      \* the outcome of the provider call
    status,     \* HTTP status of the response (0: none yet)
    body,       \* JSON body of the response
    path,       \* the return statement that produced the response
    responses   \* number of responses produced for the current request

vars == <<pc, route, request, sent, reply, status, body, path, responses>>

(***************************************************************************)
(* Python strings                                                          *)
(***************************************************************************)
Min(S) == CHOOSE m \in S : \A o \in S : m <= o
Max(S) == CHOOSE m \in S : \A o \in S : m >= o

RECURSIVE Join(_)
\* The Python str made of the characters cs.
Join(cs) ==
    IF Len(cs) = 0 THEN ""
    ELSE IF Len(cs) = 1 THEN cs[1]
    ELSE LET m == Len(cs) \div 2
         IN  Join(SubSeq(cs, 1, m)) \o Join(SubSeq(cs, m + 1, Len(cs)))

\* cs[:n]
Take(cs, n) == SubSeq(cs, 1, IF Len(cs) < n THEN Len(cs) ELSE n)

\* s[i:i+1] with i counted from 1: "" past the end
At(s, i) == IF i >= 1 /\ i <= Len(s) THEN s[i] ELSE ""

\* s[i:i+n] with i counted from 1
Slice(s, i, n) == SubSeq(s, i, IF i + n - 1 > Len(s) THEN Len(s) ELSE i + n - 1)

(***************************************************************************)
(* JSON values                                                             *)
(***************************************************************************)
JNull == [t |-> "null", v |-> "null"]
JBool(b) == [t |-> "bool", v |-> b]          \* b is "true" or "false"
JNum(lex) == [t |-> "num", v |-> lex]        \* a number, by its literal
JStr(s) == [t |-> "str", v |-> s]
JArr(items) == [t |-> "arr", v |-> items]
JObj(f) == [t |-> "obj", v |-> f]            \* f maps each key to its value
EmptyDict == [k \in {} |-> JNull]

\* Python truthiness of a parsed JSON value (`not code`)
Truthy(x) ==
    CASE x.t = "null" -> FALSE
      [] x.t = "bool" -> x.v = "true"
      [] x.t = "num" -> x.v \notin {"0", "-0", "0.0"}
      [] x.t = "str" -> x.v # ""
      [] x.t = "arr" -> Len(x.v) > 0
      [] x.t = "obj" -> DOMAIN x.v # {}

(***************************************************************************)
(* re.search(r"\{.*\}", text, re.DOTALL)                                   *)
(***************************************************************************)
\* The pattern compiled without re.DOTALL: '.' stops at a line break.
DotMatches_without_DOTALL(c) == c # "\n"

\* Whether '.' matches character c under the pattern's flags.
DotMatches(c) == TRUE

\* The last position that ".*" can consume when the "{" is at i.
DotRunEnd(text, i) ==
    LET stops == {k \in (i + 1)..Len(text) : ~DotMatches(text[k])}
    IN  IF stops = {} THEN Len(text) ELSE Min(stops) - 1

\* The positions where a match that starts at i can end.
MatchEnds(text, i) ==
    {j \in (i + 1)..Len(text) : text[j] = "}" /\ j <= DotRunEnd(text, i) + 1}

\* The pattern written with a lazy ".*?": the match ends at the first "}".
MatchEnd_lazy(text, i) == Min(MatchEnds(text, i))

\* The end of the match that starts at i: ".*" is greedy.
MatchEnd(text, i) == Max(MatchEnds(text, i))

\* re.search: the match at the leftmost position where the pattern matches.
re_search(text) ==
    LET starts == {i \in 1..Len(text) : text[i] = "{" /\ MatchEnds(text, i) # {}}
    IN  IF starts = {} THEN [found |-> FALSE, start |-> 0, end |-> 0]
        ELSE [found |-> TRUE, start |-> Min(starts), end |-> MatchEnd(text, Min(starts))]

\* json_match.group()
group(text, m) == SubSeq(text, m.start, m.end)

(***************************************************************************)
(* json.loads                                                              *)
(***************************************************************************)
Whitespace == {" ", "\t", "\n", "\r"}
ControlChars == {"\t", "\n", "\r"}
Digits == {"0", "1", "2", "3", "4", "5", "6", "7", "8", "9"}

Fail == [ok |-> FALSE, val |-> JNull, end |-> 0]
Ok(v, e) == [ok |-> TRUE, val |-> v, end |-> e]

\* WHITESPACE.match(s, i).end()
SkipWs(s, i) ==
    LET non == {k \in i..Len(s) : s[k] \notin Whitespace}
    IN  IF non = {} THEN (IF i > Len(s) THEN i ELSE Len(s) + 1) ELSE Min(non)

\* The end of the run of digits that starts at i.
DigitsEnd(s, i) ==
    LET non == {k \in i..Len(s) : s[k] \notin Digits}
    IN  IF non = {} THEN Len(s) + 1 ELSE Min(non)

\* py_scanstring(s, i, strict=True), i just after the opening quote.  A reply
\* holds no backslash, so no escape is decoded.
scanstring(s, i) ==
    LET special == {k \in i..Len(s) : s[k] = "\"" \/ s[k] \in ControlChars}
    IN  IF special = {} THEN Fail
        ELSE IF s[Min(special)] # "\"" THEN Fail
        ELSE Ok(JStr(Join(SubSeq(s, i, Min(special) - 1))), Min(special) + 1)

\* The end of (-?(?:0|[1-9]\d*)) matched at i; 0 when it does not match.
IntEnd(s, i) ==
    IF At(s, i) = "-" THEN
        (IF At(s, i + 1) = "0" THEN i + 2
         ELSE IF At(s, i + 1) \in Digits THEN DigitsEnd(s, i + 1)
         ELSE 0)
    ELSE IF At(s, i) = "0" THEN i + 1
    ELSE IF At(s, i) \in Digits THEN DigitsEnd(s, i)
    ELSE 0

\* The end of (\.\d+)? matched at i.
FracEnd(s, i) ==
    IF At(s, i) = "." /\ At(s, i + 1) \in Digits THEN DigitsEnd(s, i + 1) ELSE i

\* The end of ([eE][-+]?\d+)? matched at i.
ExpEnd(s, i) ==
    IF At(s, i) \in {"e", "E"} /\ At(s, i + 1) \in {"+", "-"} /\ At(s, i + 2) \in Digits
    THEN DigitsEnd(s, i + 2)
    ELSE IF At(s, i) \in {"e", "E"} /\ At(s, i + 1) \in Digits THEN DigitsEnd(s, i + 1)
    ELSE i

\* The number whose literal is s[i:end].
NumberTo(s, i, end) == Ok(JNum(Join(SubSeq(s, i, end - 1))), end)

\* NUMBER_RE.match(s, i): (-?(?:0|[1-9]\d*))(\.\d+)?([eE][-+]?\d+)?
match_number(s, i) ==
    IF IntEnd(s, i) = 0 THEN Fail
    ELSE NumberTo(s, i, ExpEnd(s, FracEnd(s, IntEnd(s, i))))

RECURSIVE scanner(_, _, _, _)
\* The json scanner, one rule per function of json.scanner and json.decoder;
\* Fail is StopIteration or JSONDecodeError.
\*   scan_once:  _scan_once(s, i)
\*   JSONObject: JSONObject((s, i), ...), i just after the "{"
\*   members:    one turn of JSONObject's `while True`, i just after a key's
\*               opening quote, acc the pairs read so far (a repeated key
\*               keeps its last value)
\*   JSONArray:  JSONArray((s, i), ...), i just after the "["
\*   items:      one turn of JSONArray's `while True`, acc the values read
scanner(rule, s, i, acc) ==
    CASE rule = "scan_once" ->
           LET c == At(s, i)
           IN  IF c = "" THEN Fail
               ELSE IF c = "\"" THEN scanstring(s, i + 1)
               ELSE IF c = "{" THEN scanner("JSONObject", s, i + 1, <<>>)
               ELSE IF c = "[" THEN scanner("JSONArray", s, i + 1, <<>>)
               ELSE IF c = "n" /\ Slice(s, i, 4) = <<"n", "u", "l", "l">>
                    THEN Ok(JNull, i + 4)
               ELSE IF c = "t" /\ Slice(s, i, 4) = <<"t", "r", "u", "e">>
                    THEN Ok(JBool("true"), i + 4)
               ELSE IF c = "f" /\ Slice(s, i, 5) = <<"f", "a", "l", "s", "e">>
                    THEN Ok(JBool("false"), i + 5)
               ELSE IF match_number(s, i).ok THEN match_number(s, i)
               ELSE IF c = "N" /\ Slice(s, i, 3) = <<"N", "a", "N">>
                    THEN Ok(JNum("NaN"), i + 3)
               ELSE IF c = "I" /\ Slice(s, i, 8) = <<"I", "n", "f", "i", "n", "i", "t", "y">>
                    THEN Ok(JNum("Infinity"), i + 8)
               ELSE IF c = "-"
                       /\ Slice(s, i, 9) = <<"-", "I", "n", "f", "i", "n", "i", "t", "y">>
                    THEN Ok(JNum("-Infinity"), i + 9)
               ELSE Fail
      [] rule = "JSONObject" ->
           LET e0 == IF At(s, i) # "\"" THEN SkipWs(s, i) ELSE i
           IN  IF At(s, e0) = "}" THEN Ok(JObj(EmptyDict), e0 + 1)
               ELSE IF At(s, e0) # "\"" THEN Fail
               ELSE scanner("members", s, e0 + 1, EmptyDict)
      [] rule = "members" ->
           LET k == scanstring(s, i)
               colon == SkipWs(s, k.end)
               val == scanner("scan_once", s, SkipWs(s, colon + 1), <<>>)
               next == SkipWs(s, val.end)
               acc2 == (k.val.v :> val.val) @@ acc
               key == SkipWs(s, next + 1)
           IN  IF ~k.ok THEN Fail
               ELSE IF At(s, colon) # ":" THEN Fail
               ELSE IF ~val.ok THEN Fail
               ELSE IF At(s, next) = "}" THEN Ok(JObj(acc2), next + 1)
               ELSE IF At(s, next) # "," THEN Fail
               ELSE IF At(s, key) # "\"" THEN Fail
               ELSE scanner("members", s, key + 1, acc2)
      [] rule = "JSONArray" ->
           LET e0 == SkipWs(s, i)
           IN  IF At(s, e0) = "]" THEN Ok(JArr(<<>>), e0 + 1)
               ELSE scanner("items", s, e0, <<>>)
      [] rule = "items" ->
           LET val == scanner("scan_once", s, i, <<>>)
               next == SkipWs(s, val.end)
               acc2 == Append(acc, val.val)
           IN  IF ~val.ok THEN Fail
               ELSE IF At(s, next) = "]" THEN Ok(JArr(acc2), next + 1)
               ELSE IF At(s, next) # "," THEN Fail
               ELSE scanner("items", s, SkipWs(s, next + 1), acc2)

\* _scan_once(s, i)
scan_once(s, i) == scanner("scan_once", s, i, <<>>)

\* json.loads(s): ok = FALSE stands for json.JSONDecodeError.  The replies
\* modelled stay within the interpreter's limits (nesting depth, digits of an
\* integer), so json.loads raises nothing else.
json_loads(s) ==
    LET r == scan_once(s, SkipWs(s, 1))
    IN  IF ~r.ok THEN [ok |-> FALSE, val |-> JNull]
        ELSE IF SkipWs(s, r.end) # Len(s) + 1 THEN [ok |-> FALSE, val |-> JNull]
        ELSE [ok |-> TRUE, val |-> r.val]

(***************************************************************************)
(* The provider's replies                                                  *)
(***************************************************************************)
\* The characters of the words used in replies.
C_suggestions == <<"s", "u", "g", "g", "e", "s", "t", "i", "o", "n", "s">>
C_tests == <<"t", "e", "s", "t", "s">>
C_security_score == <<"s", "e", "c", "u", "r", "i", "t", "y", "_", "s", "c", "o", "r", "e">>
C_issues == <<"i", "s", "s", "u", "e", "s">>
C_recommendations ==
    <<"r", "e", "c", "o", "m", "m", "e", "n", "d", "a", "t", "i", "o", "n", "s">>
C_optimized_code == <<"o", "p", "t", "i", "m", "i", "z", "e", "d", "_", "c", "o", "d", "e">>
C_improvements == <<"i", "m", "p", "r", "o", "v", "e", "m", "e", "n", "t", "s">>
C_performance_gain ==
    <<"p", "e", "r", "f", "o", "r", "m", "a", "n", "c", "e", "_", "g", "a", "i", "n">>
C_type == <<"t", "y", "p", "e">>
C_line == <<"l", "i", "n", "e">>
C_name == <<"n", "a", "m", "e">>
C_code == <<"c", "o", "d", "e">>
C_foo == <<"f", "o", "o">>
C_error == <<"e", "r", "r", "o", "r">>
C_security == <<"s", "e", "c", "u", "r", "i", "t", "y">>
C_braces == <<"{", "x", "}">>
C_null == <<"n", "u", "l", "l">>
C_true == <<"t", "r", "u", "e">>

\* A JSON document as the provider writes it: its strings are characters.
RStr(cs) == [k |-> "str", v |-> cs]
RNum(cs) == [k |-> "num", v |-> cs]
RLit(cs) == [k |-> "lit", v |-> cs]
RArr(items) == [k |-> "arr", v |-> items]
RObj(pairs) == [k |-> "obj", v |-> pairs]      \* pairs: a sequence of <<key, document>>

RECURSIVE Concat(_)
\* The texts of the sequence parts, one after the other.
Concat(parts) ==
    IF Len(parts) = 0 THEN <<>> ELSE Head(parts) \o Concat(Tail(parts))

RECURSIVE Dumps(_, _)
\* The text of document raw, with the whitespace sp after each separator.
Dumps(raw, sp) ==
    LET sep(i, n) == IF i < n THEN <<",">> \o sp ELSE <<>>
    IN  CASE raw.k \in {"num", "lit"} -> raw.v
          [] raw.k = "str" -> <<"\"">> \o raw.v \o <<"\"">>
          [] raw.k = "arr" ->
               <<"[">> \o Concat([i \in 1..Len(raw.v) |->
                                    Dumps(raw.v[i], sp) \o sep(i, Len(raw.v))]) \o <<"]">>
          [] raw.k = "obj" ->
               <<"{">> \o sp
                 \o Concat([i \in 1..Len(raw.v) |->
                              <<"\"">> \o raw.v[i][1] \o <<"\"", ":">> \o sp
                                \o Dumps(raw.v[i][2], sp) \o sep(i, Len(raw.v))])
                 \o sp \o <<"}">>

RECURSIVE ValueOf(_)
\* The JSON value that document raw denotes (its keys are distinct).
ValueOf(raw) ==
    CASE raw.k = "num" -> JNum(Join(raw.v))
      [] raw.k = "lit" -> IF raw.v = C_null THEN JNull ELSE JBool(Join(raw.v))
      [] raw.k = "str" -> JStr(Join(raw.v))
      [] raw.k = "arr" -> JArr([i \in 1..Len(raw.v) |-> ValueOf(raw.v[i])])
      [] raw.k = "obj" ->
           JObj([key \in {Join(raw.v[i][1]) : i \in 1..Len(raw.v)} |->
                   ValueOf(raw.v[CHOOSE i \in 1..Len(raw.v) : Join(raw.v[i][1]) = key][2])])

\* Replies of the shape each prompt asks for (lines 49-59, 147-157, 243-259,
\* 392-399), and objects of other shapes.
Samples == <<
    RObj(<< <<C_suggestions, RArr(<<>>)>> >>),
    RObj(<< <<C_suggestions,
              RArr(<<RObj(<< <<C_type, RStr(C_security)>>, <<C_line, RNum(<<"1">>)>> >>)>>)>> >>),
    RObj(<< <<C_tests, RArr(<<RObj(<< <<C_name, RStr(<<"t">>)>>, <<C_code, RStr(C_braces)>> >>)>>)>> >>),
    RObj(<< <<C_security_score, RNum(<<"8", "5">>)>>, <<C_issues, RArr(<<>>)>>,
            <<C_recommendations, RArr(<<RStr(<<"a">>)>>)>> >>),
    RObj(<< <<C_optimized_code, RStr(<<"x">>)>>, <<C_improvements, RArr(<<RStr(<<"a">>)>>)>>,
            <<C_performance_gain, RStr(<<>>)>> >>),
    RObj(<<>>),
    RObj(<< <<C_foo, RNum(<<"1">>)>> >>),
    RObj(<< <<C_error, RStr(<<"x">>)>> >>),
    RObj(<< <<C_foo, RObj(<< <<C_tests, RLit(C_null)>> >>)>> >>),
    RObj(<< <<C_suggestions, RLit(C_true)>>, <<C_foo, RArr(<<RNum(<<"1">>), RNum(<<"0">>)>>)>> >>)
>>

\* The whitespace a reply may put after its separators: none, or a line break
\* and a space.
Styles == {<<>>, <<"\n", " ">>}

\* Texts that are not one JSON object.
\* {"a":1,}   (json.loads raises JSONDecodeError)
T_trailing_comma == <<"{", "\"", "a", "\"", ":", "1", ",", "}">>
\* {a:1}   (json.loads raises JSONDecodeError)
T_bare_key == <<"{", "a", ":", "1", "}">>
\* {"a":"b\nc"}   (json.loads raises JSONDecodeError)
T_newline_in_string == <<"{", "\"", "a", "\"", ":", "\"", "b", "\n", "c", "\"", "}">>
\* {"a":01}   (json.loads raises JSONDecodeError)
T_leading_zero == <<"{", "\"", "a", "\"", ":", "0", "1", "}">>
\* {"a":"x}   (json.loads raises JSONDecodeError)
T_unclosed_string == <<"{", "\"", "a", "\"", ":", "\"", "x", "}">>
\* [1,0]   (json.loads accepts it)
T_array == <<"[", "1", ",", "0", "]">>
\* {"a":1} x {"b":0}   (json.loads raises JSONDecodeError)
T_two_objects ==
    <<"{", "\"", "a", "\"", ":", "1", "}", " ", "x", " ", "{", "\"", "b", "\"", ":", "0", "}">>
\* {"a":1,"a":0}   (json.loads accepts it)
T_duplicate_key == <<"{", "\"", "a", "\"", ":", "1", ",", "\"", "a", "\"", ":", "0", "}">>
\* {"a":true,"b":null,"c":false}   (json.loads accepts it)
T_literals ==
    <<"{", "\"", "a", "\"", ":", "t", "r", "u", "e", ",", "\"", "b", "\"", ":", "n", "u", "l",
      "l", ",", "\"", "c", "\"", ":", "f", "a", "l", "s", "e", "}">>
\* {"a":-1.5e+10}   (json.loads accepts it)
T_number == <<"{", "\"", "a", "\"", ":", "-", "1", ".", "5", "e", "+", "1", "0", "}">>
\* {"a":tru}   (json.loads raises JSONDecodeError)
T_bad_literal == <<"{", "\"", "a", "\"", ":", "t", "r", "u", "}">>

Malformed == {T_trailing_comma, T_bare_key, T_newline_in_string, T_leading_zero,
              T_unclosed_string, T_array, T_two_objects, T_duplicate_key, T_literals,
              T_number, T_bad_literal}

\* Longest short prose reply.
MaxShort == 2
\* How far around each length at which an excerpt is cut the long replies go.
MaxOver == 1

\* n characters of prose
Prose(n) == [i \in 1..n |-> "x"]

ProseLens == (0..MaxShort) \cup {l + d : l \in {200, 300}, d \in (0 - MaxOver)..MaxOver}

\* What precedes and what follows the core of a reply.
Prefixes == {<<>>, <<"x", " ">>, <<"}", " ">>, <<"{", " ">>, <<"\n">>}
Suffixes == {<<>>, <<" ", "x">>, <<" ", "}">>, <<" ", "{">>, <<"\n">>}

Cores ==
    {Dumps(Samples[i], sp) : i \in 1..Len(Samples), sp \in Styles}
        \cup Malformed \cup {Prose(n) : n \in ProseLens}

\* response.choices[0].message.content, when it is a string
Texts == {p \o c \o s : p \in Prefixes, c \in Cores, s \in Suffixes}

\* str(e) of what client.chat.completions.create raises
ProviderErrors == {"Connection error.", "Request timed out."}

\* What the blocking provider call does: it returns a completion whose content
\* is a string or None, or it raises.
Outcomes ==
    {[kind |-> "text", content |-> t, err |-> ""] : t \in Texts}
        \cup {[kind |-> "null", content |-> <<>>, err |-> ""]}
        \cup {[kind |-> "raise", content |-> <<>>, err |-> e] : e \in ProviderErrors}

(***************************************************************************)
(* Requests                                                                *)
(***************************************************************************)
Absent == [t |-> "absent", v |-> ""]

\* The dict with the fields among k1, k2 that are present.
Dict2(k1, v1, k2, v2) ==
    [k \in {x \in {k1} : v1 # Absent} \cup {x \in {k2} : v2 # Absent} |->
        IF k = k1 THEN v1 ELSE v2]

\* Values of the required field: absent, falsy, and truthy ones.
FieldValues ==
    {Absent, JStr(""), JNull, JNum("0"), JBool("false"), JArr(<<>>),
     JStr("eval(input)"), JNum("5")}

\* Values of the optional field (language, code_context).
OptionValues == {Absent, JStr("python")}

\* What is not a JSON object: null, a list, a string.
NonObjects == {JNull, JArr(<<JNum("1")>>), JStr("code")}

\* The bodies of the requests to a handler whose fields are k1 and k2.
Requests(k1, k2) ==
    {[kind |-> "nonjson", data |-> JNull], [kind |-> "malformed", data |-> JNull]}
        \cup {[kind |-> "json", data |-> d] : d \in NonObjects}
        \cup {[kind |-> "json", data |-> JObj(Dict2(k1, v1, k2, v2))] :
                v1 \in FieldValues, v2 \in OptionValues}

\* request.get_json(): the outcomes it can have.  A body that is not declared
\* as JSON makes it raise 415 or, in Flask before 2.1, return None; a body that
\* is declared JSON and does not parse makes it raise 400.
get_json(req) ==
    CASE req.kind = "nonjson" ->
           {[raised |-> TRUE,
             err |-> "415 Unsupported Media Type: Did not attempt to load JSON data because "
                       \o "the request Content-Type was not 'application/json'.",
             data |-> JNull],
            [raised |-> FALSE, err |-> "", data |-> JNull]}
      [] req.kind = "malformed" ->
           {[raised |-> TRUE,
             err |-> "400 Bad Request: The browser (or proxy) sent a request that this "
                       \o "server could not understand.",
             data |-> JNull]}
      [] req.kind = "json" ->
           {[raised |-> FALSE, err |-> "", data |-> req.data]}

\* type(x).__name__
PyType(x) ==
    CASE x.t = "null" -> "NoneType"
      [] x.t = "bool" -> "bool"
      [] x.t = "num" -> "int"
      [] x.t = "str" -> "str"
      [] x.t = "arr" -> "list"
      [] x.t = "obj" -> "dict"

\* str(e) of the AttributeError that data.get raises when data is no dict
AttributeErrorText(x) == "'" \o PyType(x) \o "' object has no attribute 'get'"

\* data.get(name, default)
dict_get(data, name, default) ==
    IF name \in DOMAIN data.v THEN data.v[name] ELSE default

\* The first lines of every handler: data = request.get_json(); the two
\* data.get; `if not <field>`.  kind "raise": an exception reaches the
\* handler's `except Exception`; "missing": the 400 return; "ok": the handler
\* goes on to build its prompt.
ReadInput(req, field, option, default) ==
    {IF g.raised THEN [kind |-> "raise", err |-> g.err, field |-> JNull, option |-> JNull]
     ELSE IF g.data.t # "obj"
          THEN [kind |-> "raise", err |-> AttributeErrorText(g.data),
                field |-> JNull, option |-> JNull]
     ELSE IF ~Truthy(dict_get(g.data, field, JStr("")))
          THEN [kind |-> "missing", err |-> "", field |-> JNull, option |-> JNull]
     ELSE [kind |-> "ok", err |-> "", field |-> dict_get(g.data, field, JStr("")),
           option |-> dict_get(g.data, option, default)]
       : g \in get_json(req)}

(***************************************************************************)
(* Responses                                                               *)
(***************************************************************************)
\* jsonify({"error": msg})
ErrorBody(msg) == JObj([error |-> JStr(msg)])

\* `return jsonify(b), st` at the return statement named p
Respond(st, b, p) ==
    /\ status' = st
    /\ body' = b
    /\ path' = p
    /\ responses' = responses + 1
    /\ pc' = "responded"

\* client.chat.completions.create(model="gpt-4", messages=[system, user],
\* temperature=tenths/10, max_tokens=tokens): the handler blocks in the call.
create(system, prompt, tenths, tokens) ==
    /\ sent' = Append(sent, [model |-> "gpt-4", system |-> system, prompt |-> prompt,
                             temperature |-> tenths, max_tokens |-> tokens])
    /\ pc' = "calling"
    /\ UNCHANGED <<reply, status, body, path, responses>>

\* str(e) of the TypeError that re.search raises when the content is None
NoneContentError == "expected string or bytes-like object, got 'NoneType'"

\* The inner try of the four code handlers: which return statement is taken,
\* and the parsed object when it is the first.
extract(ai_response) ==
    LET json_match == re_search(ai_response)
        loaded == json_loads(group(ai_response, json_match))
    IN  IF ~json_match.found THEN [path |-> "no_match", val |-> JNull]
        ELSE IF loaded.ok THEN [path |-> "parsed", val |-> loaded.val]
        ELSE [path |-> "decode_error", val |-> JNull]

(***************************************************************************)
(* The fallback envelopes                                                  *)
(***************************************************************************)
\* analyze_code, lines 87-99: the `else` of `if json_match`
analyze_code_else(ai_response) ==
    JObj([suggestions |-> JArr(<<JObj([
        type |-> JStr("analysis"),
        line |-> JNum("1"),
        severity |-> JStr("info"),
        message |-> JStr("AI analysis completed"),
        recommendation |-> JStr(Join(Take(ai_response, 200)) \o "...")])>>)])

\* The except branch cutting the text at another length than the else branch.
analyze_code_except_shorter(ai_response) ==
    JObj([suggestions |-> JArr(<<JObj([
        type |-> JStr("analysis"),
        line |-> JNum("1"),
        severity |-> JStr("info"),
        message |-> JStr("AI analysis completed"),
        recommendation |-> JStr(Join(Take(ai_response, 100)) \o "...")])>>)])

\* analyze_code, lines 100-114: `except json.JSONDecodeError`
analyze_code_except(ai_response) ==
    JObj([suggestions |-> JArr(<<JObj([
        type |-> JStr("analysis"),
        line |-> JNum("1"),
        severity |-> JStr("info"),
        message |-> JStr("AI analysis completed"),
        recommendation |-> JStr(Join(Take(ai_response, 200)) \o "...")])>>)])

\* The else branch cutting the text at the length the other handlers use.
generate_tests_else_200(ai_response) ==
    JObj([tests |-> JArr(<<JObj([
        name |-> JStr("AI Generated Test"),
        description |-> JStr("Test case generated by AI"),
        code |-> JStr(Join(Take(ai_response, 200)) \o "..."),
        expected |-> JStr("See test code"),
        category |-> JStr("unit")])>>)])

\* generate_tests, lines 182-194: the `else` of `if json_match`
generate_tests_else(ai_response) ==
    JObj([tests |-> JArr(<<JObj([
        name |-> JStr("AI Generated Test"),
        description |-> JStr("Test case generated by AI"),
        code |-> JStr(Join(Take(ai_response, 300)) \o "..."),
        expected |-> JStr("See test code"),
        category |-> JStr("unit")])>>)])

\* generate_tests, lines 195-208: `except json.JSONDecodeError`
generate_tests_except(ai_response) ==
    JObj([tests |-> JArr(<<JObj([
        name |-> JStr("AI Generated Test"),
        description |-> JStr("Test case generated by AI"),
        code |-> JStr(Join(Take(ai_response, 300)) \o "..."),
        expected |-> JStr("See test code"),
        category |-> JStr("unit")])>>)])

\* security_scan, lines 284-299: the `else` of `if json_match`
security_scan_else(ai_response) ==
    JObj([security_score |-> JNum("75"),
          issues |-> JArr(<<JObj([
              type |-> JStr("Security Analysis"),
              severity |-> JStr("info"),
              line |-> JNum("1"),
              description |-> JStr("AI security analysis completed"),
              suggestion |-> JStr(Join(Take(ai_response, 200)) \o "..."),
              cwe |-> JStr("N/A")])>>),
          recommendations |-> JArr(<<JStr("Review AI analysis results")>>)])

\* The except branch leaving out the recommendations.
security_scan_except_without_recommendations(ai_response) ==
    JObj([security_score |-> JNum("75"),
          issues |-> JArr(<<JObj([
              type |-> JStr("Security Analysis"),
              severity |-> JStr("info"),
              line |-> JNum("1"),
              description |-> JStr("AI security analysis completed"),
              suggestion |-> JStr(Join(Take(ai_response, 200)) \o "..."),
              cwe |-> JStr("N/A")])>>)])

\* security_scan, lines 300-316: `except json.JSONDecodeError`
security_scan_except(ai_response) ==
    JObj([security_score |-> JNum("75"),
          issues |-> JArr(<<JObj([
              type |-> JStr("Security Analysis"),
              severity |-> JStr("info"),
              line |-> JNum("1"),
              description |-> JStr("AI security analysis completed"),
              suggestion |-> JStr(Join(Take(ai_response, 200)) \o "..."),
              cwe |-> JStr("N/A")])>>),
          recommendations |-> JArr(<<JStr("Review AI analysis results")>>)])

\* optimize_code, lines 424-430: the `else` of `if json_match`
optimize_code_else(ai_response) ==
    JObj([optimized_code |-> JStr(Join(ai_response)),
          improvements |-> JArr(<<JStr("AI optimization analysis completed")>>),
          performance_gain |-> JStr("See optimized code")])

\* optimize_code, lines 431-438: `except json.JSONDecodeError`
optimize_code_except(ai_response) ==
    JObj([optimized_code |-> JStr(Join(ai_response)),
          improvements |-> JArr(<<JStr("AI optimization analysis completed")>>),
          performance_gain |-> JStr("See optimized code")])

(***************************************************************************)
(* The error and chat bodies                                               *)
(***************************************************************************)
\* analyze_code, lines 116-117: the body of `except Exception as e`
analyze_code_failed(e) == ErrorBody("Analysis failed: " \o e)

\* generate_tests, lines 210-211: the body of `except Exception as e`
generate_tests_failed(e) == ErrorBody("Test generation failed: " \o e)

\* security_scan, lines 318-319: the body of `except Exception as e`
security_scan_failed(e) == ErrorBody("Security scan failed: " \o e)

\* ai_chat, lines 363-364: the body of `except Exception as e`
ai_chat_failed(e) == ErrorBody("Chat failed: " \o e)

\* The message pasted from analyze_code.
optimize_code_failed_pasted(e) == ErrorBody("Analysis failed: " \o e)

\* optimize_code, lines 440-441: the body of `except Exception as e`
optimize_code_failed(e) == ErrorBody("Code optimization failed: " \o e)

\* The chat body without its timestamp.
ai_chat_body_without_timestamp(ai_response) == JObj([response |-> ai_response])

\* ai_chat, line 361: the body of the chat response
ai_chat_body(ai_response) == JObj([response |-> ai_response, timestamp |-> JStr("now")])

\* The handler calling the provider again after a failure.
except_Exception_retry(b) ==
    IF Len(sent) = 0 THEN Respond(500, b, "error") /\ UNCHANGED sent
    ELSE /\ sent' = Append(sent, sent[Len(sent)])
         /\ pc' = "calling"
         /\ UNCHANGED <<status, body, path, responses>>

\* The handler without its `except Exception`: the exception reaches Flask,
\* which answers with its own error page.
except_Exception_missing(b) ==
    /\ Respond(500, JStr("<!doctype html><title>500 Internal Server Error</title>"), "escaped")
    /\ UNCHANGED sent

\* `except Exception as e: return jsonify({"error": ...}), 500` (lines 116-117,
\* 210-211, 318-319, 363-364, 440-441): the handler ends with the error response
\* and makes no further provider call.
except_Exception(b) ==
    /\ Respond(500, b, "error")
    /\ UNCHANGED sent

(***************************************************************************)
(* The handlers.  Each is two steps, because it blocks in the provider     *)
(* call: what the provider does is the second step's input.                *)
(***************************************************************************)

\* analyze_code, lines 20-73: from the request to the provider call.
analyze_code_call ==
    /\ pc = "idle"
    /\ \E req \in Requests("code", "language") :
         \E inp \in ReadInput(req, "code", "language", JStr("javascript")) :
           /\ route' = "analyze"
           /\ request' = req
           /\ CASE inp.kind = "raise" ->
                     /\ except_Exception(analyze_code_failed(inp.err))
                     /\ UNCHANGED reply
                [] inp.kind = "missing" ->
                     /\ Respond(400, ErrorBody("No code provided"), "missing")
                     /\ UNCHANGED <<sent, reply>>
                [] inp.kind = "ok" ->
                     create("You are an expert code analyzer specializing in security, "
                              \o "performance, and testing. Always respond with valid JSON.",
                            [template |-> "analyze", language |-> inp.option, code |-> inp.field],
                            3, 2000)

\* analyze_code, lines 76-117: from the provider's outcome to the response.
analyze_code_return ==
    /\ pc = "calling"
    /\ route = "analyze"
    /\ \E out \in Outcomes :
         /\ reply' = out
         /\ CASE out.kind = "raise" -> except_Exception(analyze_code_failed(out.err))
              [] out.kind = "null" ->
                   except_Exception(analyze_code_failed(NoneContentError))
              [] out.kind = "text" ->
                   LET got == extract(out.content)
                   IN  CASE got.path = "parsed" ->
                              /\ Respond(200, got.val, "parsed")
                              /\ UNCHANGED sent
                         [] got.path = "no_match" ->
                              /\ Respond(200, analyze_code_else(out.content), "no_match")
                              /\ UNCHANGED sent
                         [] got.path = "decode_error" ->
                              /\ Respond(200, analyze_code_except(out.content), "decode_error")
                              /\ UNCHANGED sent
         /\ UNCHANGED <<route, request>>

analyze_code == analyze_code_call \/ analyze_code_return

\* generate_tests, lines 123-171: from the request to the provider call.
generate_tests_call ==
    /\ pc = "idle"
    /\ \E req \in Requests("code", "language") :
         \E inp \in ReadInput(req, "code", "language", JStr("javascript")) :
           /\ route' = "generate_tests"
           /\ request' = req
           /\ CASE inp.kind = "raise" ->
                     /\ except_Exception(generate_tests_failed(inp.err))
                     /\ UNCHANGED reply
                [] inp.kind = "missing" ->
                     /\ Respond(400, ErrorBody("No code provided"), "missing")
                     /\ UNCHANGED <<sent, reply>>
                [] inp.kind = "ok" ->
                     create("You are an expert test engineer. Generate comprehensive "
                              \o "test cases and respond with valid JSON.",
                            [template |-> "generate_tests", language |-> inp.option, code |-> inp.field],
                            3, 2000)

\* generate_tests, lines 173-211: from the provider's outcome to the response.
generate_tests_return ==
    /\ pc = "calling"
    /\ route = "generate_tests"
    /\ \E out \in Outcomes :
         /\ reply' = out
         /\ CASE out.kind = "raise" -> except_Exception(generate_tests_failed(out.err))
              [] out.kind = "null" ->
                   except_Exception(generate_tests_failed(NoneContentError))
              [] out.kind = "text" ->
                   LET got == extract(out.content)
                   IN  CASE got.path = "parsed" ->
                              /\ Respond(200, got.val, "parsed")
                              /\ UNCHANGED sent
                         [] got.path = "no_match" ->
                              /\ Respond(200, generate_tests_else(out.content), "no_match")
                              /\ UNCHANGED sent
                         [] got.path = "decode_error" ->
                              /\ Respond(200, generate_tests_except(out.content), "decode_error")
                              /\ UNCHANGED sent
         /\ UNCHANGED <<route, request>>

generate_tests == generate_tests_call \/ generate_tests_return

\* security_scan, lines 217-273: from the request to the provider call.
security_scan_call ==
    /\ pc = "idle"
    /\ \E req \in Requests("code", "language") :
         \E inp \in ReadInput(req, "code", "language", JStr("javascript")) :
           /\ route' = "security_scan"
           /\ request' = req
           /\ CASE inp.kind = "raise" ->
                     /\ except_Exception(security_scan_failed(inp.err))
                     /\ UNCHANGED reply
                [] inp.kind = "missing" ->
                     /\ Respond(400, ErrorBody("No code provided"), "missing")
                     /\ UNCHANGED <<sent, reply>>
                [] inp.kind = "ok" ->
                     create("You are a cybersecurity expert specializing in code "
                              \o "security analysis. Always respond with valid JSON.",
                            [template |-> "security_scan", language |-> inp.option, code |-> inp.field],
                            2, 2000)

\* security_scan, lines 275-319: from the provider's outcome to the response.
security_scan_return ==
    /\ pc = "calling"
    /\ route = "security_scan"
    /\ \E out \in Outcomes :
         /\ reply' = out
         /\ CASE out.kind = "raise" -> except_Exception(security_scan_failed(out.err))
              [] out.kind = "null" ->
                   except_Exception(security_scan_failed(NoneContentError))
              [] out.kind = "text" ->
                   LET got == extract(out.content)
                   IN  CASE got.path = "parsed" ->
                              /\ Respond(200, got.val, "parsed")
                              /\ UNCHANGED sent
                         [] got.path = "no_match" ->
                              /\ Respond(200, security_scan_else(out.content), "no_match")
                              /\ UNCHANGED sent
                         [] got.path = "decode_error" ->
                              /\ Respond(200, security_scan_except(out.content), "decode_error")
                              /\ UNCHANGED sent
         /\ UNCHANGED <<route, request>>

security_scan == security_scan_call \/ security_scan_return

\* ai_chat, lines 325-357: from the request to the provider call.
ai_chat_call ==
    /\ pc = "idle"
    /\ \E req \in Requests("message", "code_context") :
         \E inp \in ReadInput(req, "message", "code_context", JStr("")) :
           /\ route' = "chat"
           /\ request' = req
           /\ CASE inp.kind = "raise" ->
                     /\ except_Exception(ai_chat_failed(inp.err))
                     /\ UNCHANGED reply
                [] inp.kind = "missing" ->
                     /\ Respond(400, ErrorBody("No message provided"), "missing")
                     /\ UNCHANGED <<sent, reply>>
                [] inp.kind = "ok" ->
                     create("You are a helpful AI coding assistant. Provide clear, "
                              \o "concise, and actionable advice.",
                            [template |-> "chat", message |-> inp.field,
                             context_prompt |-> IF Truthy(inp.option) THEN inp.option ELSE JStr("")],
                            7, 1000)

\* ai_chat, lines 359-364: from the provider's outcome to the response.
ai_chat_return ==
    /\ pc = "calling"
    /\ route = "chat"
    /\ \E out \in Outcomes :
         /\ reply' = out
         /\ CASE out.kind = "raise" -> except_Exception(ai_chat_failed(out.err))
              [] out.kind = "null" ->
                   Respond(200, ai_chat_body(JNull), "chat") /\ UNCHANGED sent
              [] out.kind = "text" ->
                   /\ Respond(200, ai_chat_body(JStr(Join(out.content))), "chat")
                   /\ UNCHANGED sent
         /\ UNCHANGED <<route, request>>

ai_chat == ai_chat_call \/ ai_chat_return

\* optimize_code, lines 370-413: from the request to the provider call.
optimize_code_call ==
    /\ pc = "idle"
    /\ \E req \in Requests("code", "language") :
         \E inp \in ReadInput(req, "code", "language", JStr("javascript")) :
           /\ route' = "optimize"
           /\ request' = req
           /\ CASE inp.kind = "raise" ->
                     /\ except_Exception(optimize_code_failed(inp.err))
                     /\ UNCHANGED reply
                [] inp.kind = "missing" ->
                     /\ Respond(400, ErrorBody("No code provided"), "missing")
                     /\ UNCHANGED <<sent, reply>>
                [] inp.kind = "ok" ->
                     create("You are an expert software engineer specializing in code "
                              \o "optimization. Always respond with valid JSON.",
                            [template |-> "optimize", language |-> inp.option, code |-> inp.field],
                            3, 2000)

\* optimize_code, lines 415-441: from the provider's outcome to the response.
optimize_code_return ==
    /\ pc = "calling"
    /\ route = "optimize"
    /\ \E out \in Outcomes :
         /\ reply' = out
         /\ CASE out.kind = "raise" -> except_Exception(optimize_code_failed(out.err))
              [] out.kind = "null" ->
                   except_Exception(optimize_code_failed(NoneContentError))
              [] out.kind = "text" ->
                   LET got == extract(out.content)
                   IN  CASE got.path = "parsed" ->
                              /\ Respond(200, got.val, "parsed")
                              /\ UNCHANGED sent
                         [] got.path = "no_match" ->
                              /\ Respond(200, optimize_code_else(out.content), "no_match")
                              /\ UNCHANGED sent
                         [] got.path = "decode_error" ->
                              /\ Respond(200, optimize_code_except(out.content), "decode_error")
                              /\ UNCHANGED sent
         /\ UNCHANGED <<route, request>>

optimize_code == optimize_code_call \/ optimize_code_return

\* Flask has sent the response; the next request is served from scratch
\* (the handlers keep nothing between requests).
NextRequest ==
    /\ pc = "responded"
    /\ pc' = "idle"
    /\ route' = "none"
    /\ request' = [kind |-> "none", data |-> JNull]
    /\ sent' = <<>>
    /\ reply' = [kind |-> "none", content |-> <<>>, err |-> ""]
    /\ status' = 0
    /\ body' = JNull
    /\ path' = "none"
    /\ responses' = 0

Init ==
    /\ pc = "idle"
    /\ route = "none"
    /\ request = [kind |-> "none", data |-> JNull]
    /\ sent = <<>>
    /\ reply = [kind |-> "none", content |-> <<>>, err |-> ""]
    /\ status = 0
    /\ body = JNull
    /\ path = "none"
    /\ responses = 0

Next ==
    \/ analyze_code
    \/ generate_tests
    \/ security_scan
    \/ ai_chat
    \/ optimize_code
    \/ NextRequest

Spec == Init /\ [][Next]_vars

(***************************************************************************)
(* What the specification says, in the terms of the model                  *)
(***************************************************************************)
Done == pc = "responded"
CodeRoutes == {"analyze", "generate_tests", "security_scan", "optimize"}
FallbackPaths == {"no_match", "decode_error"}

\* The top-level keys the specification expects of each task's envelope.
ExpectedKeys(r) ==
    CASE r = "analyze" -> {"suggestions"}
      [] r = "generate_tests" -> {"tests"}
      [] r = "security_scan" -> {"security_score", "issues", "recommendations"}
      [] r = "chat" -> {"response"}
      [] r = "optimize" -> {"optimized_code", "improvements", "performance_gain"}

\* The task action prefix of each route's server error.
ActionPrefix(r) ==
    CASE r = "analyze" -> "Analysis failed: "
      [] r = "generate_tests" -> "Test generation failed: "
      [] r = "security_scan" -> "Security scan failed: "
      [] r = "chat" -> "Chat failed: "
      [] r = "optimize" -> "Code optimization failed: "

RequiredField(r) == IF r = "chat" THEN "message" ELSE "code"
MissingMessage(r) == IF r = "chat" THEN "No message provided" ELSE "No code provided"

\* The request carries no required field (whatever its body is), or an empty one.
OmitsRequired(req, r) ==
    \/ req.kind # "json"
    \/ req.data.t # "obj"
    \/ RequiredField(r) \notin DOMAIN req.data.v
    \/ req.data.v[RequiredField(r)] = JStr("")

\* The request passes the handler's input validation.
Validated(req, r) ==
    /\ req.kind = "json"
    /\ req.data.t = "obj"
    /\ RequiredField(r) \in DOMAIN req.data.v
    /\ Truthy(req.data.v[RequiredField(r)])

\* The text has a "{" with a "}" somewhere after it.
HasBracePair(text) ==
    \E i \in 1..Len(text) : text[i] = "{" /\ \E j \in (i + 1)..Len(text) : text[j] = "}"

\* From the leftmost "{" that has a "}" after it through the rightmost "}".
Span(text) ==
    SubSeq(text,
           Min({i \in 1..Len(text) :
                  text[i] = "{" /\ \E j \in (i + 1)..Len(text) : text[j] = "}"}),
           Max({j \in 1..Len(text) : text[j] = "}"}))

\* The reply's one candidate region is valid JSON.
Parses(text) == HasBracePair(text) /\ json_loads(Span(text)).ok

\* The fallback envelope of each task, as each of its two branches builds it.
FallbackElse(r, text) ==
    CASE r = "analyze" -> analyze_code_else(text)
      [] r = "generate_tests" -> generate_tests_else(text)
      [] r = "security_scan" -> security_scan_else(text)
      [] r = "optimize" -> optimize_code_else(text)

FallbackExcept(r, text) ==
    CASE r = "analyze" -> analyze_code_except(text)
      [] r = "generate_tests" -> generate_tests_except(text)
      [] r = "security_scan" -> security_scan_except(text)
      [] r = "optimize" -> optimize_code_except(text)

\* The string of a fallback envelope that carries the raw provider text.
Excerpt(r, b) ==
    CASE r = "analyze" -> b.v.suggestions.v[1].v.recommendation.v
      [] r = "generate_tests" -> b.v.tests.v[1].v.code.v
      [] r = "security_scan" -> b.v.issues.v[1].v.suggestion.v
      [] r = "optimize" -> b.v.optimized_code.v

\* The sample documents that have the shape route r asks for.
HasShape(r, raw) == \A key \in ExpectedKeys(r) : \E i \in 1..Len(raw.v) : Join(raw.v[i][1]) = key

\* A reply that is exactly document raw, give or take a line break around it.
IsDocument(text, raw) ==
    \E sp \in Styles : \E pre \in {<<>>, <<"\n">>} : \E post \in {<<>>, <<"\n">>} :
        text = pre \o Dumps(raw, sp) \o post

(***************************************************************************)
(* C1                                                                      *)
(***************************************************************************)
\* C1 as stated: every response with status 200, on every route and for every
\* provider reply, is a JSON object that has the task's expected top-level keys.
C1_ExpectedKeysAlways ==
    (Done /\ status = 200) =>
        body.t = "obj" /\ ExpectedKeys(route) \subseteq DOMAIN body.v

\* C1 amended: every response with status 200 is a JSON object; it has the
\* task's expected top-level keys whenever it is the chat envelope or the reply
\* could not be parsed as JSON; when the reply's brace region parses, the body
\* is the parsed object, whatever keys the provider gave it.
C1_ExpectedKeysUnlessParsed ==
    (Done /\ status = 200) =>
        /\ body.t = "obj"
        /\ (route = "chat" \/ ~Parses(reply.content)) =>
               ExpectedKeys(route) \subseteq DOMAIN body.v
        /\ (route # "chat" /\ Parses(reply.content)) =>
               body = json_loads(Span(reply.content)).val

\* A security scan whose reply has a brace region that is not JSON is answered
\* 200 with all three keys.
C1_Witness ==
    /\ Done /\ route = "security_scan" /\ status = 200 /\ path = "decode_error"
    /\ DOMAIN body.v = {"security_score", "issues", "recommendations"}

(***************************************************************************)
(* C2                                                                      *)
(***************************************************************************)
\* C2 as stated: a request that omits its required field, or supplies it
\* empty, is answered 400 with the route's error message, and no provider call
\* is made for it.
C2_MissingFieldIs400 ==
    (Done /\ OmitsRequired(request, route)) =>
        /\ status = 400
        /\ body = JObj([error |-> JStr(MissingMessage(route))])
        /\ sent = <<>>

C5_ProviderErrorIs500 ==
    (Done /\ reply.kind = "raise") =>
        /\ status = 500
        /\ body = JObj([error |-> JStr(ActionPrefix(route) \o reply.err)])

\* An optimization whose provider call raised.
C5_Witness ==
    /\ Done /\ route = "optimize" /\ reply.kind = "raise" /\ status = 500
    /\ body.v.error.v = "Code optimization failed: Connection error."

(***************************************************************************)
(* C6                                                                      *)
(***************************************************************************)
\* C6: on /chat, whenever the provider call returns, the response is 200 with
\* body exactly {"response": the provider text, "timestamp": "now"}, whatever
\* the text holds; no brace region is extracted and no fallback is taken.
C6_ChatVerbatim ==
    (Done /\ route = "chat" /\ reply.kind \in {"text", "null"}) =>
        /\ status = 200
        /\ path = "chat"
        /\ body = JObj([response |-> IF reply.kind = "null" THEN JNull
                                     ELSE JStr(Join(reply.content)),
                        timestamp |-> JStr("now")])

\* A chat whose reply is a valid JSON object: it is returned as text.
C6_Witness ==
    /\ Done /\ route = "chat" /\ status = 200
    /\ reply.content = Dumps(Samples[1], <<>>)
    /\ body.v.response = JStr("{\"suggestions\":[]}")

(***************************************************************************)
(* C7                                                                      *)
(***************************************************************************)
\* C7 as stated: on every route but chat, the fallback envelope embeds the
\* first 200 characters (analyze, security-scan) or 300 characters
\* (generate-tests) of the raw text followed by "...", so what is embedded is
\* never longer than the limit plus the marker.
C7_ExcerptAlwaysCut ==
    (Done /\ route \in CodeRoutes /\ path \in FallbackPaths) =>
        \E limit \in (IF route = "generate_tests" THEN {300}
                      ELSE IF route = "optimize" THEN {200, 300} ELSE {200}) :
            /\ Excerpt(route, body) = Join(Take(reply.content, limit)) \o "..."
            /\ Len(Excerpt(route, body)) <= limit + 3

\* C7 amended: the fallback envelope of analyze and of security-scan embeds the
\* first 200 characters of the raw text, that of generate-tests the first 300,
\* each followed by "..."; the fallback envelope of optimize embeds the whole
\* raw text, not cut and with no marker.
C7_ExcerptCutExceptOptimize ==
    (Done /\ route \in CodeRoutes /\ path \in FallbackPaths) =>
        IF route = "optimize"
        THEN Excerpt(route, body) = Join(reply.content)
        ELSE LET limit == IF route = "generate_tests" THEN 300 ELSE 200
             IN  /\ Excerpt(route, body) = Join(Take(reply.content, limit)) \o "..."
                 /\ Len(Excerpt(route, body)) <= limit + 3

\* A test generation whose reply of more than 300 characters is cut to 300
\* and the marker.
C7_Witness ==
    /\ Done /\ route = "generate_tests" /\ path = "no_match"
    /\ Len(reply.content) > 300
    /\ Len(Excerpt(route, body)) = 303

(***************************************************************************)
(* C8                                                                      *)
(***************************************************************************)
\* C8: while a request that passes input validation is served, exactly one
\* provider call is made, and no request ever makes a second one, whatever
\* the provider answers.
C8_ExactlyOneCall ==
    /\ Len(sent) <= 1
    /\ (pc # "idle" /\ Validated(request, route)) => Len(sent) = 1

\* A request answered after a provider failure, with one call made.
C8_Witness ==
    /\ Done /\ Validated(request, route) /\ reply.kind = "raise" /\ Len(sent) = 1

C10_OneResponse ==
    /\ responses <= 1
    /\ pc # "responded" => (responses = 0 /\ status = 0)
    /\ Done =>
         /\ responses = 1
         /\ status \in {200, 400, 500}
         /\ path # "escaped"
         /\ status \in {400, 500} => (body.t = "obj" /\ DOMAIN body.v = {"error"})
         /\ status = 400 => (sent = <<>> /\ reply.kind = "none")

\* A reply whose content is None ends a code handler with a 500 error object.
C10_Witness ==
    /\ Done /\ route \in CodeRoutes /\ reply.kind = "null" /\ status = 500
    /\ responses = 1 /\ DOMAIN body.v = {"error"}
====
